---- MODULE Spec2Model ----
(***************************************************************************)
(* A software rasterizer: Framebuffer, the render() pipeline (transform,   *)
(* rasterize, depth-tested composite) and the winit event loop of          *)
(* src/main.rs.                                                            *)
(*                                                                         *)
(* Numbers.  f32 values are kept in fixed point: screen coordinates,       *)
(* depths, the scale factor and colour channels are integers counting      *)
(* tenths (Unit == 10).  Camera angles count hundredths of a radian, as    *)
(* the handler adds (pixels * 0.01); the cursor only visits multiples of   *)
(* QuarterTurn pixels, where the rotation matrices are taken at the        *)
(* quarter turn (entries 0, 1, -1).  +infinity and NaN are two sentinels   *)
(* with IEEE comparison: FLess is false as soon as one side is NaN.        *)
(***************************************************************************)
EXTENDS Integers, Sequences, FiniteSets, TLC

VARIABLES
    width,                \* framebuffer.width
    height,               \* framebuffer.height
    buffer,               \* framebuffer.buffer: [0 .. width*height-1 -> packed pixel]
    z_buffer,             \* z_buffer: [0 .. width*height-1 -> depth]
    scale,                \* main's scale, in tenths
    camera_angle_x,       \* main's camera_angle_x, in hundredths of a radian
    camera_angle_y,       \* main's camera_angle_y, in hundredths of a radian
    is_rotating,          \* main's is_rotating
    last_mouse_position,  \* main's last_mouse_position, <<x, y>>
    control_flow,         \* *control_flow: "Poll" (winit's initial value), "Wait", "Exit"
    redraw_requested,     \* window.request_redraw() is pending
    frame,                \* pixels.get_frame(): the bytes handed to the presenter
    vertices,             \* model.vertices
    pc,                   \* position of the running handler: "idle" between events
    transformed_vertices, \* render's transformed_vertices
    chunk,                \* render's position in transformed_vertices.chunks(3)
    panicked,             \* an index was out of range (Rust panics and the program stops)
    log,                  \* history: the fragments taken from the iterator this frame
    calls                 \* history: the index triples passed to triangle() this frame

vars == <<width, height, buffer, z_buffer, scale, camera_angle_x, camera_angle_y, is_rotating,
          last_mouse_position, control_flow, redraw_requested, frame, vertices,
          pc, transformed_vertices, chunk, panicked, log, calls>>

input_vars == <<scale, camera_angle_x, camera_angle_y, is_rotating, last_mouse_position>>

-----------------------------------------------------------------------------
(* Sizes and bounds *)

\* width and height of main (800 and 600 there); the model keeps a small screen.
Width == 3
Height == 3

\* Tenths: the wheel step 0.1 of main is one unit of scale.
Unit == 10

\* Cursor pixels per quarter turn (157 * 0.01 rad).
QuarterTurn == 157

\* Camera angles stay between 0 and MaxTurns quarter turns.
MaxTurns == 1

\* A wheel event of the event-loop specification moves WheelNotch lines.
WheelNotch == 5

\* The wheel takes the scale at most MaxScaleSteps notches above its initial value.
MaxScaleSteps == 1

\* The model loaded from the mesh holds at most MaxVertices vertices.
MaxVertices == 7

\* Fragments one frame of the fragment-level specification takes from the rasterizer.
MaxFragments == 3

\* Calls of set_current_color in the specification of that method.
MaxSetCalls == 2

\* width * height of the framebuffer in hand
NumPixels == width * height
PixelIndex == 0 .. (NumPixels - 1)

-----------------------------------------------------------------------------
(* f32 *)

INF == 1000000
NaN == -1000001

\* a < b on f32
FLess(a, b) == a # NaN /\ b # NaN /\ a < b

Min2(a, b) == IF a <= b THEN a ELSE b
Max2(a, b) == IF a <= b THEN b ELSE a

\* f32::clamp
Clamp(v, lo, hi) == IF v < lo THEN lo ELSE IF v > hi THEN hi ELSE v

\* floor and ceil of a fixed-point value, in whole pixels
Floor(v) == v \div Unit
Ceil(v) == -((-v) \div Unit)

-----------------------------------------------------------------------------
(* Color *)

\* Color::to_hex: 0x00RRGGBB, each channel scaled to [0, 255] and saturated.
Channel(c) == Clamp((c * 255) \div Unit, 0, 255)
ToHex(color) == Channel(color[1]) * 65536 + Channel(color[2]) * 256 + Channel(color[3])

\* Color { r: 0.0, g: 0.2, b: 0.0 }
ClearColor == <<0, 2, 0>>
ClearHex == ToHex(ClearColor)

-----------------------------------------------------------------------------
(* Framebuffer *)

\* Framebuffer::new: vec![0; width * height]
FramebufferNew == [i \in PixelIndex |-> 0]

\* Mutant: the test lets x = width and y = height through.
FbInBoundsInclusive(x, y) == x <= width /\ y <= height

\* set_current_color's test, x and y being usize
FbInBounds(x, y) == x < width /\ y < height

\* set_current_color: the index it writes panics when out of range
SetCurrentColorPanics(fb, x, y) == FbInBounds(x, y) /\ (y * width + x) \notin DOMAIN fb

\* Mutant: the write is left out.
SetCurrentColorNone(fb, x, y, color) == fb

SetCurrentColor(fb, x, y, color) ==
    IF FbInBounds(x, y) /\ (y * width + x) \in DOMAIN fb
    THEN [fb EXCEPT ![y * width + x] = color]
    ELSE fb

\* Mutant: the loop starts at the second pixel.
ClearButFirst(fb, color) == [i \in DOMAIN fb |-> IF i = 0 THEN fb[i] ELSE color]

\* clear: every pixel of the buffer
Clear(fb, color) == [i \in DOMAIN fb |-> color]

\* Mutant: the depth buffer is not reset.
ZResetNone(zb) == zb

\* z_buffer.iter_mut().for_each(|z| *z = f32::INFINITY)
ZReset(zb) == [i \in DOMAIN zb |-> INF]

-----------------------------------------------------------------------------
(* Uniforms *)

\* 4 x 4 matrices are tuples of rows.
Identity4 == <<<<1, 0, 0, 0>>, <<0, 1, 0, 0>>, <<0, 0, 1, 0>>, <<0, 0, 0, 1>>>>

MatMul(a, b) ==
    [i \in 1..4 |-> [j \in 1..4 |->
        a[i][1] * b[1][j] + a[i][2] * b[2][j] + a[i][3] * b[3][j] + a[i][4] * b[4][j]]]

MatVec(m, v) ==
    [i \in 1..4 |-> m[i][1] * v[1] + m[i][2] * v[2] + m[i][3] * v[3] + m[i][4] * v[4]]

\* cos and sin of an angle given in hundredths of a radian, at the quarter turn
Quadrant(a) == (a \div QuarterTurn) % 4
Cos(a) == CASE Quadrant(a) = 0 -> 1 [] Quadrant(a) = 1 -> 0
            [] Quadrant(a) = 2 -> -1 [] OTHER -> 0
Sin(a) == CASE Quadrant(a) = 0 -> 0 [] Quadrant(a) = 1 -> 1
            [] Quadrant(a) = 2 -> 0 [] OTHER -> -1

\* nalgebra_glm::rotate_x(m, a): m times the rotation about the x axis
RotateX(m, a) == MatMul(m, <<<<1, 0, 0, 0>>,
                             <<0, Cos(a), -Sin(a), 0>>,
                             <<0, Sin(a), Cos(a), 0>>,
                             <<0, 0, 0, 1>>>>)

\* nalgebra_glm::rotate_y(m, a): m times the rotation about the y axis
RotateY(m, a) == MatMul(m, <<<<Cos(a), 0, Sin(a), 0>>,
                             <<0, 1, 0, 0>>,
                             <<-Sin(a), 0, Cos(a), 0>>,
                             <<0, 0, 0, 1>>>>)

\* Mat4::new_translation
NewTranslation(t) == <<<<1, 0, 0, t[1]>>, <<0, 1, 0, t[2]>>, <<0, 0, 1, t[3]>>, <<0, 0, 0, 1>>>>

\* Mutant: the z axis is left unscaled.
NewScalingXY(s) ==
    <<<<s[1], 0, 0, 0>>, <<0, s[2], 0, 0>>, <<0, 0, 1, 0>>, <<0, 0, 0, 1>>>>

\* Mat4::new_nonuniform_scaling
NewNonuniformScaling(s) ==
    <<<<s[1], 0, 0, 0>>, <<0, s[2], 0, 0>>, <<0, 0, s[3], 0>>, <<0, 0, 0, 1>>>>

\* Mutant: the factors are multiplied in the opposite order.
UniformsNewReversed(translation, s, rotation) ==
    MatMul(MatMul(NewNonuniformScaling(<<s, s, s>>), rotation), NewTranslation(translation))

\* Uniforms::new: the model matrix, translation * rotation * scale
UniformsNew(translation, s, rotation) ==
    MatMul(MatMul(NewTranslation(translation), rotation), NewNonuniformScaling(<<s, s, s>>))

\* half_width and half_height, in tenths
HalfWidth == (Width * Unit) \div 2
HalfHeight == (Height * Unit) \div 2

\* The uniforms of one redraw: camera_transform = rotation_y * rotation_x
FrameUniforms(s, ax, ay) ==
    LET rotation_x == RotateX(Identity4, ax)
        rotation_y == RotateY(Identity4, ay)
        camera_transform == MatMul(rotation_y, rotation_x)
    IN  UniformsNew(<<HalfWidth, HalfHeight, 0>>, s, camera_transform)

-----------------------------------------------------------------------------
(* Vertex and the transform stage of render *)

NewVertex(position, color) ==
    [position |-> position, color |-> color,
     transformed_position |-> <<position[1] * Unit, position[2] * Unit, position[3] * Unit>>]

\* The closure of render's map: w is dropped, position and color are kept.
TransformVertex(model_matrix, vertex) ==
    LET position == <<vertex.position[1], vertex.position[2], vertex.position[3], 1>>
        transformed == MatVec(model_matrix, position)
    IN  [position |-> vertex.position, color |-> vertex.color,
         transformed_position |-> <<transformed[1], transformed[2], transformed[3]>>]

TransformVertices(model_matrix, vertex_array) ==
    [i \in 1..Len(vertex_array) |-> TransformVertex(model_matrix, vertex_array[i])]

-----------------------------------------------------------------------------
(* triangle(): the rasterizer *)

\* Twice the signed area of the triangle u, v, w in the xy plane.
Edge(u, v, w) == (v[1] - u[1]) * (w[2] - u[2]) - (v[2] - u[2]) * (w[1] - u[1])

\* The barycentric numerators of pixel p, with the sign of the area taken out,
\* and the area itself as the last component.
Barycentric(a, b, c, p) ==
    LET area == Edge(a, b, c)
        sgn == IF area < 0 THEN -1 ELSE 1
    IN  <<sgn * Edge(p, b, c), sgn * Edge(a, p, c), sgn * Edge(a, b, p), sgn * area>>

\* Interpolation of one attribute with the weights w (floor of the quotient).
Interpolate(w, fa, fb, fc) == (w[1] * fa + w[2] * fb + w[3] * fc) \div w[4]

\* The fragments of one triangle: the pixels of its bounding box (clipped to the
\* non-negative range) whose three weights are non-negative, row by row.
Triangle(v1, v2, v3) ==
    LET a == v1.transformed_position
        b == v2.transformed_position
        c == v3.transformed_position
        min_x == Max2(0, Floor(Min2(a[1], Min2(b[1], c[1]))))
        min_y == Max2(0, Floor(Min2(a[2], Min2(b[2], c[2]))))
        max_x == Ceil(Max2(a[1], Max2(b[1], c[1])))
        max_y == Ceil(Max2(a[2], Max2(b[2], c[2])))
        cols == max_x - min_x + 1
        rows == max_y - min_y + 1
        PixelOf(i) == <<min_x + ((i - 1) % cols), min_y + ((i - 1) \div cols)>>
        Weights(i) == Barycentric(a, b, c, <<PixelOf(i)[1] * Unit, PixelOf(i)[2] * Unit>>)
        FragmentAt(i) ==
            LET w == Weights(i)
            IN  [x |-> PixelOf(i)[1], y |-> PixelOf(i)[2],
                 depth |-> Interpolate(w, a[3], b[3], c[3]),
                 color |-> <<Interpolate(w, v1.color[1], v2.color[1], v3.color[1]),
                             Interpolate(w, v1.color[2], v2.color[2], v3.color[2]),
                             Interpolate(w, v1.color[3], v2.color[3], v3.color[3])>>]
        Covered(i) == LET w == Weights(i) IN w[1] >= 0 /\ w[2] >= 0 /\ w[3] >= 0
        covered == IF Edge(a, b, c) = 0 \/ cols <= 0 \/ rows <= 0
                   THEN <<>>
                   ELSE SelectSeq([i \in 1..(cols * rows) |-> i], Covered)
    IN  [k \in 1..Len(covered) |-> FragmentAt(covered[k])]

-----------------------------------------------------------------------------
(* The composite step of render *)

\* `as usize` of an integer coordinate: a negative value wraps round.  usize is
\* 64 bits wide on the build targets; the model keeps 30, far above every
\* coordinate it holds either way.
UsizeModulus == 2^30
AsUsize(i) == i % UsizeModulus

\* Mutant: the test lets x = width and y = height through.
InBoundsInclusive(x, y) == x <= width /\ y <= height

\* Mutant: only the row is tested.
InBoundsRowOnly(x, y) == y < height

\* x < framebuffer.width && y < framebuffer.height
InBounds(x, y) == x < width /\ y < height

\* Mutants of the depth test: the comparison turned round, no test at all,
\* `<=` for `<`, and `!(depth >= stored)` for `depth < stored`.
DepthTestReversed(depth, stored) == FLess(stored, depth)
DepthTestAlways(depth, stored) == TRUE
DepthTestLessEq(depth, stored) == depth # NaN /\ stored # NaN /\ depth <= stored
DepthTestNotGreaterEq(depth, stored) == ~(depth # NaN /\ stored # NaN /\ depth >= stored)

\* fragment.depth < z_buffer[index]
DepthTestPasses(depth, stored) == FLess(depth, stored)

\* One pass of the body of `for fragment in fragments`, on the two buffers.
Composite(fb, zb, fragment) ==
    LET x == AsUsize(fragment.x)
        y == AsUsize(fragment.y)
        index == y * width + x
        same == [fb |-> fb, zb |-> zb, panicked |-> FALSE]
    IN  IF ~InBounds(x, y) THEN same
        ELSE IF index \notin DOMAIN zb THEN [same EXCEPT !.panicked = TRUE]
        ELSE IF ~DepthTestPasses(fragment.depth, zb[index]) THEN same
        ELSE [fb |-> SetCurrentColor(fb, x, y, ToHex(fragment.color)),
              zb |-> [zb EXCEPT ![index] = fragment.depth],
              panicked |-> SetCurrentColorPanics(fb, x, y)]

\* The whole loop over the fragments of one triangle; a panic ends it.
RECURSIVE CompositeAll(_, _, _)
CompositeAll(fb, zb, fragments) ==
    IF fragments = <<>> THEN [fb |-> fb, zb |-> zb, panicked |-> FALSE]
    ELSE LET r == Composite(fb, zb, Head(fragments))
         IN  IF r.panicked THEN r ELSE CompositeAll(r.fb, r.zb, Tail(fragments))

\* transformed_vertices.chunks(3): the number of chunks and the k-th of them (from 0)
NumChunks(tv) == (Len(tv) + 2) \div 3
ChunkAt(tv, k) == SubSeq(tv, 3 * k + 1, Min2(3 * k + 3, Len(tv)))

\* Mutant: any chunk is taken for a triangle.
IsNonEmptyChunk(triangle_vertices) == Len(triangle_vertices) >= 1

\* triangle_vertices.len() == 3
IsFullChunk(triangle_vertices) == Len(triangle_vertices) = 3

-----------------------------------------------------------------------------
(* The model loaded from the mesh *)

Red == <<10, 0, 0>>
Blue == <<0, 0, 10>>
Green == <<0, 10, 0>>

\* Three triangles; the first two overlap on the diagonal of the screen.
BaseVertices ==
    << NewVertex(<<-1, -1, 0>>, Red), NewVertex(<<1, -1, 1>>, Red), NewVertex(<<-1, 1, 2>>, Red),
       NewVertex(<<1, 1, 3>>, Blue), NewVertex(<<-1, 1, 0>>, Blue), NewVertex(<<1, -1, 0>>, Blue),
       NewVertex(<<0, 0, -1>>, Green), NewVertex(<<1, 0, -1>>, Green), NewVertex(<<0, 1, -1>>, Green) >>

\* model.add_vertices_from_obj: any number of vertices, a multiple of 3 or not
Models == { SubSeq(BaseVertices, 1, n) : n \in 0..Min2(MaxVertices, Len(BaseVertices)) }

-----------------------------------------------------------------------------
(* main before the event loop runs *)

Init ==
    /\ width = Width
    /\ height = Height
    /\ buffer = Clear(FramebufferNew, ClearHex)
    /\ z_buffer = [i \in PixelIndex |-> INF]
    /\ scale = Unit
    /\ camera_angle_x = 0
    /\ camera_angle_y = 0
    /\ is_rotating = FALSE
    /\ last_mouse_position = <<0, 0>>
    /\ control_flow = "Poll"
    /\ redraw_requested = FALSE
    /\ frame = [o \in 0..(4 * NumPixels - 1) |-> 0]
    /\ vertices \in Models
    /\ pc = "idle"
    /\ transformed_vertices = <<>>
    /\ chunk = 0
    /\ panicked = FALSE
    /\ log = <<>>
    /\ calls = <<>>

-----------------------------------------------------------------------------
(* The event loop: one call of the closure per event *)

\* The closure is entered only between events, while the loop runs.
Dispatch == pc = "idle" /\ control_flow # "Exit" /\ ~panicked

render_vars == <<width, height, buffer, z_buffer, frame, vertices, pc, transformed_vertices, chunk,
                 panicked, log, calls>>

\* WindowEvent::CloseRequested
CloseRequested ==
    /\ Dispatch
    /\ control_flow' = "Exit"
    /\ UNCHANGED <<input_vars, redraw_requested, render_vars>>

\* scale.clamp(0.1, 100.0), in tenths
ScaleMin == 1
ScaleMax == 1000

\* Mutant: the sum is not clamped.
WheelScaleUnclamped(s, delta) == IF delta.kind = "LineDelta" THEN s + delta.y ELSE s

\* WindowEvent::MouseWheel: only a LineDelta changes the scale
WheelScale(s, delta) ==
    IF delta.kind = "LineDelta" THEN Clamp(s + delta.y, ScaleMin, ScaleMax) ELSE s

MouseWheel(delta) ==
    /\ Dispatch
    /\ control_flow' = "Wait"
    /\ scale' = WheelScale(scale, delta)
    /\ UNCHANGED <<camera_angle_x, camera_angle_y, is_rotating, last_mouse_position,
                   redraw_requested, render_vars>>

\* WindowEvent::MouseInput { button: MouseButton::Middle, state, .. }
MouseInput(state) ==
    /\ Dispatch
    /\ control_flow' = "Wait"
    /\ is_rotating' = (state = "Pressed")
    /\ UNCHANGED <<scale, camera_angle_x, camera_angle_y, last_mouse_position,
                   redraw_requested, render_vars>>

\* Mutant: the cursor position is remembered only while rotating.
CursorMovedStale(x, y) ==
    /\ Dispatch
    /\ control_flow' = "Wait"
    /\ IF is_rotating
       THEN /\ camera_angle_x' = camera_angle_x + (y - last_mouse_position[2])
            /\ camera_angle_y' = camera_angle_y + (x - last_mouse_position[1])
            /\ last_mouse_position' = <<x, y>>
       ELSE UNCHANGED <<camera_angle_x, camera_angle_y, last_mouse_position>>
    /\ UNCHANGED <<scale, is_rotating, redraw_requested, render_vars>>

\* WindowEvent::CursorMoved { position, .. }
CursorMoved(x, y) ==
    /\ Dispatch
    /\ control_flow' = "Wait"
    /\ IF is_rotating
       THEN /\ camera_angle_x' = camera_angle_x + (y - last_mouse_position[2])
            /\ camera_angle_y' = camera_angle_y + (x - last_mouse_position[1])
       ELSE UNCHANGED <<camera_angle_x, camera_angle_y>>
    /\ last_mouse_position' = <<x, y>>
    /\ UNCHANGED <<scale, is_rotating, redraw_requested, render_vars>>

\* Every other event: the `_ => {}` arms
OtherEvent ==
    /\ Dispatch
    /\ control_flow' = "Wait"
    /\ UNCHANGED <<input_vars, redraw_requested, render_vars>>

\* Mutant: no redraw is requested.
MainEventsClearedNoRequest ==
    /\ Dispatch
    /\ control_flow' = "Wait"
    /\ UNCHANGED <<input_vars, redraw_requested, render_vars>>

\* Event::MainEventsCleared: window.request_redraw()
MainEventsCleared ==
    /\ Dispatch
    /\ control_flow' = "Wait"
    /\ redraw_requested' = TRUE
    /\ UNCHANGED <<input_vars, render_vars>>

\* Mutant: the transform stage writes its result back into the model.
RedrawRequestedInPlace ==
    /\ Dispatch
    /\ redraw_requested
    /\ control_flow' = "Wait"
    /\ redraw_requested' = FALSE
    /\ buffer' = Clear(buffer, ClearHex)
    /\ z_buffer' = ZReset(z_buffer)
    /\ transformed_vertices' =
           TransformVertices(FrameUniforms(scale, camera_angle_x, camera_angle_y), vertices)
    /\ vertices' = transformed_vertices'
    /\ chunk' = 0
    /\ pc' = "render"
    /\ log' = <<>>
    /\ calls' = <<>>
    /\ UNCHANGED <<input_vars, width, height, frame, panicked>>

\* Event::RedrawRequested, up to render's first loop: clear, depth reset, the
\* uniforms, and render's transform stage
RedrawRequested ==
    /\ Dispatch
    /\ redraw_requested
    /\ control_flow' = "Wait"
    /\ redraw_requested' = FALSE
    /\ buffer' = Clear(buffer, ClearHex)
    /\ z_buffer' = ZReset(z_buffer)
    /\ transformed_vertices' =
           TransformVertices(FrameUniforms(scale, camera_angle_x, camera_angle_y), vertices)
    /\ chunk' = 0
    /\ pc' = "render"
    /\ log' = <<>>
    /\ calls' = <<>>
    /\ UNCHANGED <<input_vars, width, height, frame, vertices, panicked>>

\* The fragments triangle() returns for a chunk
Rasterize(triangle_vertices) ==
    Triangle(triangle_vertices[1], triangle_vertices[2], triangle_vertices[3])

\* One pass of `for triangle_vertices in transformed_vertices.chunks(3)` on the
\* k-th chunk: a full chunk is rasterized and composited, another one is
\* skipped.  Indexing a shorter chunk at [1] or [2] would panic.
ChunkStep(fb, zb, tv, k) ==
    LET triangle_vertices == ChunkAt(tv, k)
    IN  IF ~IsFullChunk(triangle_vertices)
        THEN [fb |-> fb, zb |-> zb, panicked |-> FALSE, called |-> FALSE]
        ELSE IF Len(triangle_vertices) < 3
        THEN [fb |-> fb, zb |-> zb, panicked |-> TRUE, called |-> FALSE]
        ELSE LET r == CompositeAll(fb, zb, Rasterize(triangle_vertices))
             IN  [fb |-> r.fb, zb |-> r.zb, panicked |-> r.panicked, called |-> TRUE]

RenderChunk ==
    /\ pc = "render"
    /\ ~panicked
    /\ chunk < NumChunks(transformed_vertices)
    /\ LET r == ChunkStep(buffer, z_buffer, transformed_vertices, chunk)
       IN  /\ buffer' = r.fb
           /\ z_buffer' = r.zb
           /\ panicked' = r.panicked
           /\ calls' = IF r.called
                       THEN Append(calls, <<3 * chunk, 3 * chunk + 1, 3 * chunk + 2>>)
                       ELSE calls
    /\ chunk' = chunk + 1
    /\ UNCHANGED <<input_vars, width, height, control_flow, redraw_requested, frame, vertices, pc,
                   transformed_vertices, log>>

\* render as a whole, from the k-th chunk on
RECURSIVE RenderChunks(_, _, _, _)
RenderChunks(fb, zb, tv, k) ==
    IF k >= NumChunks(tv) THEN [fb |-> fb, zb |-> zb, panicked |-> FALSE]
    ELSE LET r == ChunkStep(fb, zb, tv, k)
         IN  IF r.panicked THEN [fb |-> r.fb, zb |-> r.zb, panicked |-> TRUE]
             ELSE RenderChunks(r.fb, r.zb, tv, k + 1)

\* render(&mut framebuffer, &mut z_buffer, &uniforms, vertex_array)
Render(fb, zb, model_matrix, vertex_array) ==
    RenderChunks(fb, zb, TransformVertices(model_matrix, vertex_array), 0)

\* Mutant: the frame is handed over while render's loop still runs.
RenderStarted == pc = "render" /\ ~panicked

\* render has returned: every chunk was visited
RenderDone == pc = "render" /\ ~panicked /\ chunk = NumChunks(transformed_vertices)

\* Mutant: the bytes are taken most significant first.
BeByte(pixel, b) == (pixel \div (256 ^ (3 - b))) % 256

\* pixel.to_le_bytes()[b]
LeByte(pixel, b) == (pixel \div (256 ^ b)) % 256

\* frame[offset..offset + 4].copy_from_slice(&pixel.to_le_bytes()) for every pixel
PresentFrame(fb) == [o \in 0..(4 * NumPixels - 1) |-> LeByte(fb[o \div 4], o % 4)]

\* The end of the RedrawRequested arm: the copy into the frame and pixels.render()
Present ==
    /\ RenderDone
    /\ frame' = PresentFrame(buffer)
    /\ pc' = "idle"
    /\ UNCHANGED <<input_vars, width, height, control_flow, redraw_requested, buffer, z_buffer, vertices,
                   transformed_vertices, chunk, panicked, log, calls>>

\* The events of the specification: wheel notches either way, the scale kept
\* within MaxScaleSteps notches above its initial value, and the cursor on
\* three points.
WheelDeltas == { [kind |-> "LineDelta", y |-> WheelNotch], [kind |-> "LineDelta", y |-> -WheelNotch],
                 [kind |-> "PixelDelta", y |-> 0] }
CursorPoints == { <<0, 0>>, <<QuarterTurn, 0>>, <<0, QuarterTurn>> }
ScaleInRange(s) == Unit <= s /\ s <= Unit + MaxScaleSteps * WheelNotch
AngleInRange(a) == 0 <= a /\ a <= MaxTurns * QuarterTurn

Next ==
    \/ CloseRequested
    \/ \E delta \in WheelDeltas : MouseWheel(delta) /\ ScaleInRange(scale')
    \/ \E state \in {"Pressed", "Released"} : MouseInput(state)
    \/ \E p \in CursorPoints :
          CursorMoved(p[1], p[2]) /\ AngleInRange(camera_angle_x') /\ AngleInRange(camera_angle_y')
    \/ OtherEvent
    \/ MainEventsCleared
    \/ RedrawRequested
    \/ RenderChunk
    \/ Present

Spec == Init /\ [][Next]_vars

\* What enables the two steps that run render: a redraw is pending between
\* two events, and render's loop has a chunk left.
RedrawPending == Dispatch /\ redraw_requested
ChunksLeft == pc = "render" /\ ~panicked /\ chunk < NumChunks(transformed_vertices)

\* The event loop delivers MainEventsCleared after the events of a batch and
\* RedrawRequested after a redraw was requested, and a handler that was entered
\* runs to its end: weak fairness of the four steps.  For RedrawRequested and
\* RenderChunk, WF_vars is written out as `infinitely often disabled or
\* infinitely often taken`, with the enabling condition given as a state
\* predicate.
Fairness ==
    /\ WF_vars(MainEventsCleared)
    /\ ([]<>(~RedrawPending) \/ []<><<RedrawRequested>>_vars)
    /\ ([]<>(~ChunksLeft) \/ []<><<RenderChunk>>_vars)
    /\ WF_vars(Present)

SpecLive == Init /\ [][Next]_vars /\ Fairness

-----------------------------------------------------------------------------
(* One frame, fragment by fragment.  The composite loop of render is run one *)
(* fragment at a time on whatever the rasterizer may hand over: fragments    *)
(* on the screen with finite and NaN depths, one of depth +infinity, and     *)
(* fragments off the screen on each of its four sides.                       *)

OnScreenPoints == { <<0, 0>>, <<Width - 1, Height - 1>> }
OffScreenPoints == { <<-1, 0>>, <<0, -1>>, <<Width, 0>>, <<0, Height>> }
FragmentDepths == { NaN, 1, 2 }
FragmentColors == { Red, Blue }
FragmentInputs ==
    { [x |-> p[1], y |-> p[2], depth |-> d, color |-> c] :
        p \in OnScreenPoints, d \in FragmentDepths, c \in FragmentColors }
    \cup { [x |-> p[1], y |-> p[2], depth |-> 1, color |-> Red] : p \in OffScreenPoints }
    \cup { [x |-> 0, y |-> 0, depth |-> INF, color |-> Red] }

\* The state render is in when its chunk loop starts, in a redraw of the
\* largest model: both buffers were reset by the RedrawRequested arm.
InitFrame ==
    /\ width = Width
    /\ height = Height
    /\ buffer = Clear(FramebufferNew, ClearHex)
    /\ z_buffer = ZReset([i \in PixelIndex |-> INF])
    /\ scale = Unit
    /\ camera_angle_x = 0
    /\ camera_angle_y = 0
    /\ is_rotating = FALSE
    /\ last_mouse_position = <<0, 0>>
    /\ control_flow = "Wait"
    /\ redraw_requested = FALSE
    /\ frame = [o \in 0..(4 * NumPixels - 1) |-> 0]
    /\ vertices = SubSeq(BaseVertices, 1, Min2(MaxVertices, Len(BaseVertices)))
    /\ transformed_vertices = TransformVertices(FrameUniforms(Unit, 0, 0), vertices)
    /\ pc = "render"
    /\ chunk = 0
    /\ panicked = FALSE
    /\ log = <<>>
    /\ calls = <<>>

\* A full chunk: triangle() is called and the fragment loop is entered.
BeginTriangle ==
    /\ pc = "render"
    /\ ~panicked
    /\ chunk < NumChunks(transformed_vertices)
    /\ IsFullChunk(ChunkAt(transformed_vertices, chunk))
    /\ calls' = Append(calls, <<3 * chunk, 3 * chunk + 1, 3 * chunk + 2>>)
    /\ pc' = "fragments"
    /\ UNCHANGED <<input_vars, width, height, control_flow, redraw_requested, buffer, z_buffer, frame,
                   vertices, transformed_vertices, chunk, panicked, log>>

\* A chunk of fewer than 3 vertices is passed over.
SkipChunk ==
    /\ pc = "render"
    /\ ~panicked
    /\ chunk < NumChunks(transformed_vertices)
    /\ ~IsFullChunk(ChunkAt(transformed_vertices, chunk))
    /\ chunk' = chunk + 1
    /\ UNCHANGED <<input_vars, width, height, control_flow, redraw_requested, buffer, z_buffer, frame,
                   vertices, transformed_vertices, pc, panicked, log, calls>>

\* The body of `for fragment in fragments` on the next fragment.
NextFragment(fragment) ==
    /\ pc = "fragments"
    /\ ~panicked
    /\ Len(log) < MaxFragments
    /\ LET r == Composite(buffer, z_buffer, fragment)
       IN  /\ buffer' = r.fb
           /\ z_buffer' = r.zb
           /\ panicked' = r.panicked
    /\ log' = Append(log, [fragment |-> fragment, chunk |-> chunk])
    /\ UNCHANGED <<input_vars, width, height, control_flow, redraw_requested, frame, vertices,
                   transformed_vertices, pc, chunk, calls>>

\* The fragments of the triangle are exhausted.
EndTriangle ==
    /\ pc = "fragments"
    /\ ~panicked
    /\ chunk' = chunk + 1
    /\ pc' = "render"
    /\ UNCHANGED <<input_vars, width, height, control_flow, redraw_requested, buffer, z_buffer, frame,
                   vertices, transformed_vertices, panicked, log, calls>>

NextFrame ==
    \/ BeginTriangle
    \/ SkipChunk
    \/ \E fragment \in FragmentInputs : NextFragment(fragment)
    \/ EndTriangle

SpecFrame == InitFrame /\ [][NextFrame]_vars

-----------------------------------------------------------------------------
(* Framebuffer::set_current_color on its own, for any x and y. *)

SetColors == { ToHex(Red), ToHex(Blue) }

InitSet ==
    /\ width = Width
    /\ height = Height
    /\ buffer = Clear(FramebufferNew, ClearHex)
    /\ z_buffer = [i \in PixelIndex |-> INF]
    /\ scale = Unit
    /\ camera_angle_x = 0
    /\ camera_angle_y = 0
    /\ is_rotating = FALSE
    /\ last_mouse_position = <<0, 0>>
    /\ control_flow = "Poll"
    /\ redraw_requested = FALSE
    /\ frame = [o \in 0..(4 * NumPixels - 1) |-> 0]
    /\ vertices = <<>>
    /\ transformed_vertices = <<>>
    /\ pc = "set"
    /\ chunk = 0
    /\ panicked = FALSE
    /\ log = <<>>
    /\ calls = <<>>

\* framebuffer.set_current_color(x, y, color)
SetCurrentColorCall(x, y, color) ==
    /\ pc = "set"
    /\ ~panicked
    /\ Len(log) < MaxSetCalls
    /\ buffer' = SetCurrentColor(buffer, x, y, color)
    /\ panicked' = SetCurrentColorPanics(buffer, x, y)
    /\ log' = Append(log, [x |-> x, y |-> y, color |-> color])
    /\ UNCHANGED <<input_vars, width, height, control_flow, redraw_requested, z_buffer, frame, vertices,
                   transformed_vertices, pc, chunk, calls>>

NextSet == \E x \in 0..(Width + 1), y \in 0..(Height + 1), color \in SetColors :
               SetCurrentColorCall(x, y, color)

SpecSet == InitSet /\ [][NextSet]_vars

-----------------------------------------------------------------------------
(* One triangle given in screen coordinates, composited into an empty      *)
(* framebuffer of SceneWidth x SceneHeight pixels, fragment by fragment in  *)
(* the order the rasterizer returns them.                                   *)

SceneWidth == 30
SceneHeight == 30

\* The corners (10, 10, 0.5), (20, 10, 0.5), (10, 20, 0.5), in tenths
ScenePoints == << <<100, 100, 5>>, <<200, 100, 5>>, <<100, 200, 5>> >>
SceneOrders == { <<1, 2, 3>>, <<1, 3, 2>>, <<2, 1, 3>>, <<2, 3, 1>>, <<3, 1, 2>>, <<3, 2, 1>> }
SceneColors == { Red, Blue }

\* The three vertices as the transform stage leaves them, in the given order
SceneVertices(order, color) ==
    [k \in 1..3 |->
        [NewVertex(<<0, 0, 0>>, color) EXCEPT !.transformed_position = ScenePoints[order[k]]]]

InitScene ==
    /\ width = SceneWidth
    /\ height = SceneHeight
    /\ buffer = Clear(FramebufferNew, ClearHex)
    /\ z_buffer = [i \in PixelIndex |-> INF]
    /\ scale = Unit
    /\ camera_angle_x = 0
    /\ camera_angle_y = 0
    /\ is_rotating = FALSE
    /\ last_mouse_position = <<0, 0>>
    /\ control_flow = "Wait"
    /\ redraw_requested = FALSE
    /\ frame = [o \in 0..(4 * NumPixels - 1) |-> 0]
    /\ \E order \in SceneOrders, color \in SceneColors :
          /\ vertices = SceneVertices(order, color)
          /\ transformed_vertices = SceneVertices(order, color)
    /\ pc = "render"
    /\ chunk = 0
    /\ panicked = FALSE
    /\ log = <<>>
    /\ calls = <<>>

\* The fragments triangle() returned for the chunk in hand
CurrentFragments == Rasterize(ChunkAt(transformed_vertices, chunk))

\* The body of `for fragment in fragments` on the next fragment of the triangle
RasterFragment ==
    /\ pc = "fragments"
    /\ ~panicked
    /\ Len(log) < Len(CurrentFragments)
    /\ LET fragment == CurrentFragments[Len(log) + 1]
           r == Composite(buffer, z_buffer, fragment)
       IN  /\ buffer' = r.fb
           /\ z_buffer' = r.zb
           /\ panicked' = r.panicked
           /\ log' = Append(log, [fragment |-> fragment, chunk |-> chunk])
    /\ UNCHANGED <<input_vars, width, height, control_flow, redraw_requested, frame,
                   vertices, transformed_vertices, pc, chunk, calls>>

\* The last fragment of the triangle was composited.
EndRaster ==
    /\ pc = "fragments"
    /\ ~panicked
    /\ Len(log) = Len(CurrentFragments)
    /\ chunk' = chunk + 1
    /\ pc' = "render"
    /\ UNCHANGED <<input_vars, width, height, control_flow, redraw_requested, buffer,
                   z_buffer, frame, vertices, transformed_vertices, panicked, log, calls>>

NextScene ==
    \/ BeginTriangle
    \/ RasterFragment
    \/ EndRaster

SpecScene == InitScene /\ [][NextScene]_vars

-----------------------------------------------------------------------------
(* Redraws with the scale at 0, which the wheel cannot reach: the frame is  *)
(* rendered for every model and every pair of camera angles at the quarter  *)
(* turns.                                                                   *)

CollapsedAngles == { 0, QuarterTurn, 2 * QuarterTurn, 3 * QuarterTurn }

InitCollapsed ==
    /\ width = Width
    /\ height = Height
    /\ buffer = Clear(FramebufferNew, ClearHex)
    /\ z_buffer = [i \in PixelIndex |-> INF]
    /\ scale = 0
    /\ camera_angle_x \in CollapsedAngles
    /\ camera_angle_y \in CollapsedAngles
    /\ is_rotating = FALSE
    /\ last_mouse_position = <<0, 0>>
    /\ control_flow = "Poll"
    /\ redraw_requested = FALSE
    /\ frame = [o \in 0..(4 * NumPixels - 1) |-> 0]
    /\ vertices \in Models
    /\ pc = "idle"
    /\ transformed_vertices = <<>>
    /\ chunk = 0
    /\ panicked = FALSE
    /\ log = <<>>
    /\ calls = <<>>

NextCollapsed ==
    \/ MainEventsCleared
    \/ RedrawRequested
    \/ RenderChunk
    \/ Present

SpecCollapsed == InitCollapsed /\ [][NextCollapsed]_vars

-----------------------------------------------------------------------------
(* The input events alone, with no redraw delivered: the wheel moves by     *)
(* notches and by BigWheel lines at once, so that the scale runs over its   *)
(* whole range and into both ends of the clamp.                             *)

BigWheel == 1000

InputWheelDeltas ==
    { [kind |-> "LineDelta", y |-> y] : y \in {WheelNotch, -WheelNotch, BigWheel, -BigWheel} }
    \cup { [kind |-> "PixelDelta", y |-> WheelNotch] }

InitInput == Init /\ Len(vertices) = Min2(MaxVertices, Len(BaseVertices))

NextInput ==
    \/ CloseRequested
    \/ \E delta \in InputWheelDeltas : MouseWheel(delta)
    \/ \E state \in {"Pressed", "Released"} : MouseInput(state)
    \/ \E p \in CursorPoints :
          CursorMoved(p[1], p[2]) /\ AngleInRange(camera_angle_x') /\ AngleInRange(camera_angle_y')
    \/ OtherEvent
    \/ MainEventsCleared

SpecInput == InitInput /\ [][NextInput]_vars

-----------------------------------------------------------------------------
(* What the history says about a pixel *)

\* The fragment addresses pixel i of the screen.
Targets(fragment, i) ==
    /\ 0 <= fragment.x /\ fragment.x < Width
    /\ 0 <= fragment.y /\ fragment.y < Height
    /\ fragment.y * Width + fragment.x = i

OutOfBounds(fragment) ==
    fragment.x < 0 \/ fragment.y < 0 \/ fragment.x >= Width \/ fragment.y >= Height

\* The positions in the history l of the fragments with an ordered depth at pixel i
HitsAt(l, i) ==
    { j \in 1..Len(l) : Targets(l[j].fragment, i) /\ l[j].fragment.depth # NaN }

DepthsAt(l, i) == { l[j].fragment.depth : j \in HitsAt(l, i) }

MinDepth(l, i) == CHOOSE d \in DepthsAt(l, i) : \A e \in DepthsAt(l, i) : d <= e

\* The first fragment of the history that has the least depth at pixel i
EarliestNearest(l, i) ==
    CHOOSE j \in HitsAt(l, i) :
        /\ l[j].fragment.depth = MinDepth(l, i)
        /\ \A k \in HitsAt(l, i) : l[k].fragment.depth = MinDepth(l, i) => j <= k

\* A step that took a fragment from the iterator, and that fragment
TookFragment == Len(log') = Len(log) + 1
Taken == log'[Len(log')].fragment

BuffersUnchanged == buffer' = buffer /\ z_buffer' = z_buffer

-----------------------------------------------------------------------------
(* Claims *)

\* C1: at every step of the composite loop, started on a depth buffer reset to
\* +infinity, a pixel no ordered fragment has addressed still holds +infinity,
\* and every other pixel holds the least depth among the in-bounds fragments
\* that addressed it so far in this frame.
C1_DepthIsMinimum ==
    \A i \in PixelIndex :
        IF DepthsAt(log, i) = {}
        THEN z_buffer[i] = INF
        ELSE z_buffer[i] = MinDepth(log, i)

\* A nearer fragment arrived first and a farther one last at the same pixel.
C1_Witness ==
    /\ Len(log) = 3
    /\ \E i \in PixelIndex :
          /\ Targets(log[1].fragment, i) /\ log[1].fragment.depth = 2
          /\ Targets(log[2].fragment, i) /\ log[2].fragment.depth = 1
          /\ Targets(log[3].fragment, i) /\ log[3].fragment.depth = 2
          /\ z_buffer[i] = 1

\* In the history l, every fragment of the first triangle is nearer than every
\* fragment of the second triangle at the same pixel.
NearerFirst(l) ==
    \A a, b \in 1..Len(l) :
        (l[a].chunk = 0 /\ l[b].chunk = 1 /\
         \E i \in PixelIndex : Targets(l[a].fragment, i) /\ Targets(l[b].fragment, i))
            => FLess(l[a].fragment.depth, l[b].fragment.depth)

ClaimedByFirst(i) ==
    \E a \in 1..Len(log) :
        log[a].chunk = 0 /\ Targets(log[a].fragment, i) /\ log[a].fragment.depth # NaN

\* C2: with the nearer triangle submitted first, no step of the second
\* triangle's loop changes the framebuffer or the depth buffer at a pixel the
\* first triangle has claimed.
C2_FartherNeverOverwrites ==
    [][ (pc = "fragments" /\ chunk = 1 /\ NearerFirst(log'))
          => \A i \in PixelIndex :
                ClaimedByFirst(i) => (buffer'[i] = buffer[i] /\ z_buffer'[i] = z_buffer[i]) ]_vars

\* The second triangle has sent a farther fragment of another colour to a pixel
\* of the first, which still shows the first triangle.
C2_Witness ==
    /\ Len(log) >= 2 /\ NearerFirst(log)
    /\ \E a, b \in 1..Len(log) : \E i \in PixelIndex :
          /\ log[a].chunk = 0 /\ log[b].chunk = 1
          /\ Targets(log[a].fragment, i) /\ Targets(log[b].fragment, i)
          /\ log[a].fragment.color # log[b].fragment.color
          /\ log[a].fragment.depth = 1 /\ log[b].fragment.depth = 2
          /\ buffer[i] = ToHex(log[a].fragment.color)
          /\ z_buffer[i] = 1

C4_StrictTestBothBuffers ==
    /\ [](\A i \in PixelIndex :
             z_buffer[i] # INF =>
                 buffer[i] = ToHex(log[EarliestNearest(log, i)].fragment.color))
    /\ [][ TookFragment =>
             \A i \in PixelIndex :
                 IF Targets(Taken, i) /\ FLess(Taken.depth, z_buffer[i])
                 THEN z_buffer'[i] = Taken.depth /\ buffer'[i] = ToHex(Taken.color)
                 ELSE z_buffer'[i] = z_buffer[i] /\ buffer'[i] = buffer[i] ]_vars

\* Two fragments of the same depth and different colours at one pixel: the
\* pixel shows the first.
C4_Witness ==
    /\ Len(log) >= 2
    /\ \E i \in PixelIndex :
          /\ Targets(log[1].fragment, i) /\ Targets(log[2].fragment, i)
          /\ log[1].fragment.depth = 1 /\ log[2].fragment.depth = 1
          /\ log[1].fragment.color = Red /\ log[2].fragment.color = Blue
          /\ buffer[i] = ToHex(Red)

\* The calls of triangle() a vertex array of n vertices gives rise to
ExpectedCalls(n) == [k \in 1..(n \div 3) |-> <<3 * (k - 1), 3 * (k - 1) + 1, 3 * (k - 1) + 2>>]

\* The framebuffer of a whole pass with the given inputs, on fresh buffers
FrameOf(s, ax, ay, vertex_array) ==
    Render(Clear(FramebufferNew, ClearHex), [i \in PixelIndex |-> INF],
           FrameUniforms(s, ax, ay), vertex_array).fb

\* C5: render calls triangle() on the groups [3k, 3k+1, 3k+2] in order,
\* floor(n/3) times in all for n vertices, without error; the n mod 3 trailing
\* vertices add no call and no pixel: the frame is that of the array without them.
C5_FullGroupsOnly ==
    LET n == Len(vertices) IN
    /\ ~panicked
    /\ pc = "render" => calls = SubSeq(ExpectedCalls(n), 1, Min2(chunk, n \div 3))
    /\ RenderDone =>
          /\ calls = ExpectedCalls(n)
          /\ buffer = FrameOf(scale, camera_angle_x, camera_angle_y,
                              SubSeq(vertices, 1, 3 * (n \div 3)))

\* A model of 4 vertices was rendered: one call, and a triangle on the screen.
C5_Witness ==
    /\ RenderDone
    /\ Len(vertices) = 4
    /\ calls = << <<0, 1, 2>> >>
    /\ \E i \in PixelIndex : buffer[i] = ToHex(Red)

\* A step that called set_current_color, and that call
SetCalled == Len(log') = Len(log) + 1
LastCall == log'[Len(log')]

\* C6: set_current_color(x, y, color) changes no cell but the one of column x
\* and row y, which exists only if x < width and y < height and then holds
\* color; for any other (x, y) no pixel changes; and it never panics.
C6_SetWritesOneCell ==
    [][ SetCalled =>
          /\ ~panicked'
          /\ DOMAIN buffer' = DOMAIN buffer
          /\ \A cx \in 0..(Width - 1), cy \in 0..(Height - 1) :
                IF cx = LastCall.x /\ cy = LastCall.y
                THEN buffer'[cy * Width + cx] = LastCall.color
                ELSE buffer'[cy * Width + cx] = buffer[cy * Width + cx] ]_vars

\* One call on the screen and one call off it (x = width): one pixel is set.
C6_Witness ==
    /\ Len(log) = 2
    /\ log[1].x = Width - 1 /\ log[1].y = 1 /\ log[1].color = ToHex(Red)
    /\ log[2].x = Width /\ log[2].y = 0 /\ log[2].color = ToHex(Blue)
    /\ \A i \in PixelIndex :
          buffer[i] = IF i = Width + (Width - 1) THEN ToHex(Red) ELSE ClearHex

\* C7: when render's loop starts, in every redraw, every pixel holds the
\* packed clear colour and every depth is +infinity.
C7_FrameStartsClean ==
    (pc = "render" /\ chunk = 0) =>
        \A i \in PixelIndex : buffer[i] = ClearHex /\ z_buffer[i] = INF

\* A redraw starts after an earlier frame that drew something was presented.
C7_Witness ==
    /\ pc = "render" /\ chunk = 0
    /\ \E i \in PixelIndex : frame[4 * i + 2] # 0
    /\ \A i \in PixelIndex : buffer[i] = ClearHex /\ z_buffer[i] = INF

\* C8: the framebuffer a pass ends with depends on the scale, the angles and
\* the scene only: it is the framebuffer of the same pass on fresh buffers,
\* whatever was drawn and presented before.
C8_FrameDependsOnUniformsOnly ==
    RenderDone => buffer = FrameOf(scale, camera_angle_x, camera_angle_y, vertices)

\* A pass has ended on buffers that an earlier, different frame had filled.
C8_Witness ==
    /\ RenderDone
    /\ \E i \in PixelIndex : frame[4 * i + 2] # 0 \/ frame[4 * i] # 0
    /\ frame # PresentFrame(buffer)
    /\ \E i \in PixelIndex : buffer[i] # ClearHex

\* C9: the frame changes only when a pass is complete (every chunk visited,
\* every full group rasterized in this redraw), and it then holds the bytes of
\* the whole pass for the current inputs; and no step taken inside a redraw
\* changes the inputs or the control flow.
C9_PresentAfterFullPass ==
    [][ /\ frame' # frame =>
              /\ pc = "render" /\ chunk = NumChunks(transformed_vertices)
              /\ calls = ExpectedCalls(Len(vertices))
              /\ frame' = PresentFrame(FrameOf(scale, camera_angle_x, camera_angle_y, vertices))
              /\ pc' = "idle"
        /\ pc # "idle" =>
              /\ input_vars' = input_vars
              /\ control_flow' = control_flow
              /\ redraw_requested' = redraw_requested ]_vars

\* A frame of two triangles was presented.
C9_Witness ==
    /\ pc = "idle"
    /\ Len(calls) = 2
    /\ frame = PresentFrame(buffer)
    /\ \E i \in PixelIndex : buffer[i] = ToHex(Red)
    /\ \E i \in PixelIndex : buffer[i] = ToHex(Blue)

\* C10: a fragment of NaN depth changes neither buffer and does not panic, and
\* no cell of the depth buffer ever holds NaN.
C10_NaNNeverPasses ==
    /\ [](\A i \in PixelIndex : z_buffer[i] # NaN)
    /\ [][ (TookFragment /\ Taken.depth = NaN) => (BuffersUnchanged /\ ~panicked') ]_vars

\* NaN fragments on the screen, at a pixel still at +infinity and at a pixel
\* already written.
C10_Witness ==
    /\ Len(log) = 3
    /\ \E i \in PixelIndex :
          /\ Targets(log[1].fragment, i) /\ log[1].fragment.depth = NaN
          /\ Targets(log[2].fragment, i) /\ log[2].fragment.depth = 2
          /\ Targets(log[3].fragment, i) /\ log[3].fragment.depth = NaN
          /\ z_buffer[i] = 2
          /\ buffer[i] = ToHex(log[2].fragment.color)

\* C11: render does not change the model.  In every state, after any number of
\* frames, the vertex array is the one loaded from the mesh, position, color
\* and transformed_position of every vertex included; and the transformed
\* vertices of a redraw are a sequence of their own, as long as the model and
\* in its order: the i-th holds the position and color of the i-th vertex and
\* the model matrix applied to its position.
C11_ModelNotMutated ==
    /\ vertices = SubSeq(BaseVertices, 1, Len(vertices))
    /\ pc = "render" =>
          /\ Len(transformed_vertices) = Len(vertices)
          /\ \A i \in 1..Len(vertices) :
                LET v == vertices[i]
                    t == MatVec(FrameUniforms(scale, camera_angle_x, camera_angle_y),
                                <<v.position[1], v.position[2], v.position[3], 1>>)
                IN  /\ transformed_vertices[i].position = v.position
                    /\ transformed_vertices[i].color = v.color
                    /\ transformed_vertices[i].transformed_position = <<t[1], t[2], t[3]>>

\* A second frame, turned by a quarter, has been rendered after a first one was
\* presented; the model still holds the positions it was loaded with.
C11_Witness ==
    /\ RenderDone
    /\ Len(vertices) = 6
    /\ camera_angle_x = QuarterTurn
    /\ \E o \in DOMAIN frame : frame[o] # 0
    /\ \A i \in 1..Len(vertices) :
          /\ vertices[i] = BaseVertices[i]
          /\ transformed_vertices[i].transformed_position # vertices[i].transformed_position

\* The barycentric weights of pixel (x, y) in the triangle (10, 10), (20, 10),
\* (10, 20), each times 10
SceneWeights(x, y) == <<30 - x - y, x - 10, y - 10>>
SceneCovered(x, y) ==
    SceneWeights(x, y)[1] >= 0 /\ SceneWeights(x, y)[2] >= 0 /\ SceneWeights(x, y)[3] >= 0
SceneColor == ToHex(transformed_vertices[1].color)

\* C12: the triangle (10, 10, 0.5), (20, 10, 0.5), (10, 20, 0.5) of one colour,
\* composited into the empty 30 x 30 framebuffer with every depth +infinity,
\* leaves that colour on exactly the pixels whose three barycentric weights are
\* non-negative and the clear colour on every other pixel, in whatever order
\* its corners are given; while the pass runs a pixel outside the triangle is
\* never written.
C12_SceneTriangle ==
    \A x \in 0..(width - 1), y \in 0..(height - 1) :
        LET i == y * width + x
        IN  /\ ~SceneCovered(x, y) => (buffer[i] = ClearHex /\ z_buffer[i] = INF)
            /\ buffer[i] \in {ClearHex, SceneColor}
            /\ RenderDone =>
                  (SceneCovered(x, y) => (buffer[i] = SceneColor /\ z_buffer[i] = 5))

\* The pass is over: 66 pixels hold the colour, among them the three corners
\* and the middle of the long edge, and the pixel beyond that edge is clear.
C12_Witness ==
    /\ RenderDone
    /\ width = SceneWidth /\ height = SceneHeight
    /\ Cardinality({i \in PixelIndex : buffer[i] = SceneColor}) = 66
    /\ buffer[10 * width + 10] = SceneColor
    /\ buffer[10 * width + 20] = SceneColor
    /\ buffer[20 * width + 10] = SceneColor
    /\ buffer[15 * width + 15] = SceneColor
    /\ buffer[16 * width + 15] = ClearHex
    /\ SceneColor # ClearHex

\* C13: with scale = 0, for every rotation and every vertex, the transform
\* stage puts the vertex on the translation point (half_width, half_height, 0);
\* so every triangle passed to the rasterizer has no area and yields no
\* fragment, and every pixel holds the clear colour throughout the frame and
\* after it, in the framebuffer and in the frame presented.
C13_ZeroScaleCollapses ==
    /\ scale = 0
    /\ pc = "render" =>
          /\ \A i \in 1..Len(transformed_vertices) :
                transformed_vertices[i].transformed_position = <<HalfWidth, HalfHeight, 0>>
          /\ \A k \in 0..(NumChunks(transformed_vertices) - 1) :
                IsFullChunk(ChunkAt(transformed_vertices, k)) =>
                    /\ Edge(ChunkAt(transformed_vertices, k)[1].transformed_position,
                            ChunkAt(transformed_vertices, k)[2].transformed_position,
                            ChunkAt(transformed_vertices, k)[3].transformed_position) = 0
                    /\ Rasterize(ChunkAt(transformed_vertices, k)) = <<>>
    /\ \A i \in PixelIndex : buffer[i] = ClearHex /\ z_buffer[i] = INF
    /\ (\E o \in DOMAIN frame : frame[o] # 0) => frame = PresentFrame(Clear(buffer, ClearHex))

\* A frame of two triangles, turned by a quarter about each axis, was rendered
\* at scale 0 and presented: nothing but the clear colour.
C13_Witness ==
    /\ pc = "idle"
    /\ scale = 0
    /\ camera_angle_x = QuarterTurn /\ camera_angle_y = QuarterTurn
    /\ Len(calls) = 2
    /\ frame = PresentFrame(buffer)
    /\ \A i \in PixelIndex : buffer[i] = ClearHex

\* C14: once a frame has been presented and until the next redraw, the frame
\* holds 4 bytes for every pixel of the framebuffer, rows from the top and
\* pixels from the left: for pixel (x, y) and i = y * width + x, the bytes
\* 4i .. 4i+3 are the packed pixel buffer[i], least significant byte first.
C14_FrameRowMajorLittleEndian ==
    (pc = "idle" /\ \E o \in DOMAIN frame : frame[o] # 0) =>
        /\ DOMAIN frame = 0..(4 * width * height - 1)
        /\ \A x \in 0..(width - 1), y \in 0..(height - 1) :
              LET i == y * width + x
              IN  /\ \A b \in 0..3 : frame[4 * i + b] \in 0..255
                  /\ buffer[i] = frame[4 * i] + 256 * frame[4 * i + 1]
                                  + 65536 * frame[4 * i + 2] + 16777216 * frame[4 * i + 3]

\* A presented frame with a red pixel (bytes 00 00 FF 00) and, at the top left,
\* a pixel of the clear colour (bytes 00 33 00 00).
C14_Witness ==
    /\ pc = "idle"
    /\ buffer[0] = ClearHex
    /\ <<frame[0], frame[1], frame[2], frame[3]>> = <<0, 51, 0, 0>>
    /\ \E i \in PixelIndex :
          /\ buffer[i] = ToHex(Red)
          /\ <<frame[4 * i], frame[4 * i + 1], frame[4 * i + 2], frame[4 * i + 3]>> = <<0, 0, 255, 0>>

\* A rotation about the x axis and about the y axis applied to a 3-vector
RotX3(a, v) == <<v[1], Cos(a) * v[2] - Sin(a) * v[3], Sin(a) * v[2] + Cos(a) * v[3]>>
RotY3(a, v) == <<Cos(a) * v[1] + Sin(a) * v[3], v[2], Cos(a) * v[3] - Sin(a) * v[1]>>

\* translation + rotation applied to (scale * position), the rotation about x
\* coming before the rotation about y
ScaledRotatedTranslated(s, ax, ay, position) ==
    LET scaled == <<s * position[1], s * position[2], s * position[3]>>
        rotated == RotY3(ay, RotX3(ax, scaled))
    IN  <<HalfWidth + rotated[1], HalfHeight + rotated[2], rotated[3]>>

\* C15: the model matrix is translation x rotation x scale: during a redraw
\* every transformed position is the translation added to the rotation of the
\* scaled position, so the vertex is scaled first, then rotated, then moved;
\* the fourth component of the product is 1 and is dropped as it is, leaving
\* the three components undivided.
C15_TranslateRotateScale ==
    pc = "render" =>
        \A i \in 1..Len(vertices) :
            LET p == vertices[i].position
                h == MatVec(FrameUniforms(scale, camera_angle_x, camera_angle_y),
                            <<p[1], p[2], p[3], 1>>)
            IN  /\ transformed_vertices[i].transformed_position =
                       ScaledRotatedTranslated(scale, camera_angle_x, camera_angle_y, p)
                /\ Len(transformed_vertices[i].transformed_position) = 3
                /\ h[4] = 1

\* A redraw at scale 1.5, turned by a quarter about both axes: the vertex
\* (1, -1, 1) is scaled to (1.5, -1.5, 1.5), turned to (-1.5, -1.5, -1.5) and
\* moved by (1.5, 1.5, 0) to (0, 0, -1.5).
C15_Witness ==
    /\ pc = "render"
    /\ scale = 15
    /\ camera_angle_x = QuarterTurn /\ camera_angle_y = QuarterTurn
    /\ Len(vertices) >= 3
    /\ vertices[2].position = <<1, -1, 1>>
    /\ transformed_vertices[2].transformed_position = <<0, 0, -15>>

\* C16: the two buffers stay coupled throughout the composite loop.  A pixel
\* whose depth is +infinity holds the clear colour; any other pixel holds the
\* depth and the packed colour of one and the same fragment, the one that
\* stored the depth; and no step changes the depth of a pixel without writing
\* the colour of the same fragment there, nor the colour without the depth.
C16_BuffersCoupled ==
    /\ [](\A i \in PixelIndex :
             IF z_buffer[i] = INF
             THEN buffer[i] = ClearHex
             ELSE /\ HitsAt(log, i) # {}
                  /\ z_buffer[i] = log[EarliestNearest(log, i)].fragment.depth
                  /\ buffer[i] = ToHex(log[EarliestNearest(log, i)].fragment.color))
    /\ [][ \A i \in PixelIndex :
              /\ z_buffer'[i] # z_buffer[i] =>
                    (TookFragment /\ Targets(Taken, i) /\ buffer'[i] = ToHex(Taken.color))
              /\ buffer'[i] # buffer[i] =>
                    (TookFragment /\ Targets(Taken, i) /\ z_buffer'[i] = Taken.depth
                     /\ z_buffer'[i] # z_buffer[i]) ]_vars

\* A fragment of depth +infinity went to the top left pixel, which is still
\* clear; the last pixel took a blue fragment and then a nearer red one.
C16_Witness ==
    /\ Len(log) = 3
    /\ log[1].fragment = [x |-> 0, y |-> 0, depth |-> INF, color |-> Red]
    /\ z_buffer[0] = INF /\ buffer[0] = ClearHex
    /\ log[2].fragment = [x |-> Width - 1, y |-> Height - 1, depth |-> 2, color |-> Blue]
    /\ log[3].fragment = [x |-> Width - 1, y |-> Height - 1, depth |-> 1, color |-> Red]
    /\ z_buffer[NumPixels - 1] = 1 /\ buffer[NumPixels - 1] = ToHex(Red)

\* C17: every index render uses is in range.  In every state of the program
\* the framebuffer and the depth buffer both have width * height cells, the
\* sizes main gave them (neither is ever resized); for every x and y that pass
\* x < width and y < height, the largest usize included, y * width + x is an
\* index of both; and no fragment, on the screen or off it, makes render or
\* set_current_color index out of range.
C17_AccessesInRange ==
    /\ ~panicked
    /\ width = Width /\ height = Height
    /\ DOMAIN buffer = 0..(width * height - 1)
    /\ DOMAIN z_buffer = 0..(width * height - 1)
    /\ \A x \in 0..(width + 1) \cup {UsizeModulus - 1}, y \in 0..(height + 1) \cup {UsizeModulus - 1} :
          InBounds(x, y) =>
              /\ y * width + x < width * height
              /\ y * width + x \in DOMAIN z_buffer
              /\ y * width + x \in DOMAIN buffer
              /\ ~SetCurrentColorPanics(buffer, x, y)

\* The first triangle of a redraw at scale 1.5 was composited: one of its
\* fragments lies right of the screen, another one was written to the last
\* cell of both buffers.
C17_Witness ==
    /\ pc = "render" /\ chunk >= 1
    /\ ~panicked
    /\ Len(transformed_vertices) >= 3
    /\ \E k \in 1..Len(Rasterize(ChunkAt(transformed_vertices, 0))) :
          Rasterize(ChunkAt(transformed_vertices, 0))[k].x >= width
    /\ buffer[width * height - 1] # ClearHex
    /\ z_buffer[width * height - 1] # INF

\* C18: after any sequence of input events the scale lies in [0.1, 100.0], and
\* so is never 0; a wheel event with a line delta of y lines sets it to
\* scale + 0.1 * y brought back into [0.1, 100.0], a wheel event with a pixel
\* delta leaves it alone, and no step other than a line-delta wheel event
\* changes it.
C18_ScaleStaysClamped ==
    /\ [](ScaleMin <= scale /\ scale <= ScaleMax /\ scale # 0)
    /\ [][ /\ \A delta \in InputWheelDeltas :
                 MouseWheel(delta) =>
                     scale' = IF delta.kind = "LineDelta"
                              THEN Max2(ScaleMin, Min2(ScaleMax, scale + delta.y))
                              ELSE scale
           /\ scale' # scale =>
                 \E delta \in InputWheelDeltas : delta.kind = "LineDelta" /\ MouseWheel(delta) ]_vars

\* The wheel was turned down past the lower end (from 0.5 by one notch, or by
\* BigWheel lines at once): the scale is 0.1, and neither 0 nor below.
C18_Witness ==
    /\ scale = ScaleMin
    /\ control_flow = "Wait"
    /\ pc = "idle"

\* C19: the camera angles change only in a CursorMoved step taken while
\* is_rotating holds, by 0.01 rad per pixel of the move from the last cursor
\* position (dy to the x angle, dx to the y angle); is_rotating changes only
\* in a middle-button step, to TRUE on a press and to FALSE on a release; and
\* every CursorMoved step, rotating or not, stores the cursor position, which
\* no other step changes.
C19_RotationOnlyWhileDragging ==
    [][ /\ (camera_angle_x' # camera_angle_x \/ camera_angle_y' # camera_angle_y) =>
              (is_rotating /\ \E p \in CursorPoints : CursorMoved(p[1], p[2]))
        /\ \A p \in CursorPoints :
              CursorMoved(p[1], p[2]) =>
                  /\ last_mouse_position' = p
                  /\ is_rotating' = is_rotating
                  /\ camera_angle_x' =
                         camera_angle_x + (IF is_rotating THEN p[2] - last_mouse_position[2] ELSE 0)
                  /\ camera_angle_y' =
                         camera_angle_y + (IF is_rotating THEN p[1] - last_mouse_position[1] ELSE 0)
        /\ is_rotating' # is_rotating =>
              \E state \in {"Pressed", "Released"} :
                  MouseInput(state) /\ is_rotating' = (state = "Pressed")
        /\ last_mouse_position' # last_mouse_position =>
              \E p \in CursorPoints : CursorMoved(p[1], p[2]) ]_vars

\* The button is down, the x angle is a quarter turn, the y angle is 0 and the
\* cursor is a quarter turn to the right of the origin: the cursor got there
\* with the button up, and that move was stored without turning the camera.
C19_Witness ==
    /\ is_rotating
    /\ camera_angle_x = QuarterTurn
    /\ camera_angle_y = 0
    /\ last_mouse_position = <<QuarterTurn, 0>>

\* The frame on display was rendered with the scale and the angles as they are.
Shown ==
    /\ pc = "idle"
    /\ frame = PresentFrame(FrameOf(scale, camera_angle_x, camera_angle_y, vertices))

\* The last redraw has ended, its frame was handed over, and the vertices it
\* transformed are the model's under the scale and the angles as they are now.
OnDisplay ==
    /\ pc = "idle"
    /\ \E o \in DOMAIN frame : frame[o] # 0
    /\ frame = PresentFrame(buffer)
    /\ Len(transformed_vertices) = Len(vertices)
    /\ \A i \in 1..Len(vertices) :
          transformed_vertices[i].transformed_position =
              ScaledRotatedTranslated(scale, camera_angle_x, camera_angle_y,
                                      vertices[i].position)

\* C20: if MainEventsCleared and RedrawRequested are delivered and the handlers
\* run to their end, then from every state in which the window has not been
\* closed, so after every input event, a redraw made with the scale and angles
\* then current is eventually on display, unless the window is closed first;
\* the frame then on display is the frame of a whole pass for that scale and
\* those angles; a CloseRequested step sets the control flow to Exit, and it
\* stays Exit.
C20_ChangesEventuallyPresented ==
    /\ (control_flow # "Exit") ~> (OnDisplay \/ control_flow = "Exit")
    /\ [](OnDisplay => Shown)
    /\ [][ (CloseRequested => control_flow' = "Exit")
           /\ (control_flow = "Exit" => control_flow' = "Exit") ]_vars

\* After the wheel and a drag, a frame at scale 1.5 turned by a quarter about
\* the y axis is on display.
C20_Witness ==
    /\ OnDisplay
    /\ Shown
    /\ scale = 15
    /\ camera_angle_y = QuarterTurn
    /\ Len(calls) = 2
    /\ \E i \in PixelIndex : buffer[i] # ClearHex
    /\ control_flow = "Wait"

====
